---- MODULE Spec2Model ----
(***************************************************************************)
(* The Sustainability Task Force page (MultiAgents.py).  The page is a     *)
(* script that is run from top to bottom on the first load and again after *)
(* every user interaction.  One action of this model is one interaction    *)
(* together with the whole script run it triggers.                         *)
(***************************************************************************)
EXTENDS Integers, Sequences, FiniteSets, TLC

VARIABLES
    env_key,          \* GROQ_API_KEY is present in the environment / .env file
    tabulate_ok,      \* DataFrame.describe().to_markdown() works in this installation
    agent_choice,     \* value of the sidebar selectbox
    topic,            \* value of the text area, a sequence of characters
    uploaded_file,    \* value of the file uploader (NoFile models None)
    session_state,    \* st.session_state, a mapping defined on the keys it holds
    tmp_uploaded,     \* content of tmp_uploaded.csv on disk (NoFile: no such file)
    status,           \* how far the last script run got
    button,           \* what st.button("Run Analysis") returned in the last script run
    branch,           \* what the Run Analysis handler did in the last script run
    result,           \* the script's variable result after the last script run
    df,               \* the script's variable df after the last script run
    e,                \* message of the exception the handler caught in the last run
    calls,            \* constructor / run / tool / file calls of the last script run
    shown,            \* elements the handler area rendered in the last script run
    expanders,        \* Past Results expanders rendered in the last script run
    downloads,        \* download buttons rendered in the last script run
    constructions,    \* Agent and Team constructor calls made by the process so far
    successful_runs,  \* choices of the triggers that completed and rendered a result
    script_runs       \* script runs so far

vars == <<env_key, tabulate_ok, agent_choice, topic, uploaded_file, session_state,
          tmp_uploaded, status, button, branch, result, df, e, calls, shown, expanders,
          downloads, constructions, successful_runs, script_runs>>

\* ------------------------------------------------------------------ bounds

\* Script runs explored per process.
MaxRuns == 5

\* ------------------------------------------------------------- value sets

\* Python's None where a string is expected.
NoneVal == "<None>"

NEWS == "News Analyst"
DATA == "Data Analyst"
POLICY == "Policy Reviewer"
INNOVATION == "Innovations Scout"
TASKFORCE == "All Agents (Task Force)"

\* The options of the selectbox, in order; the first is the default.
Choices == <<NEWS, DATA, POLICY, INNOVATION, TASKFORCE>>

ChoiceSet == {Choices[i] : i \in 1..Len(Choices)}

\* The objects built by the agent and team definitions, in construction order.
Registry == <<"news_agent", "data_agent", "policy_agent", "innovation_agent",
              "taskforce_team">>

SPACE == " "

\* Texts the user may type: empty, whitespace-only, plain, padded.
Topics == {<<>>, <<SPACE>>, <<"a">>, <<SPACE, "a", SPACE>>}

\* The uploader's value when nothing is uploaded (None, falsy).
NoFile == [present |-> FALSE, parses |-> FALSE, numeric |-> FALSE]

\* Files a user may upload: one pandas cannot parse, a table without numeric
\* columns, a table with numeric columns.
Files == {[present |-> TRUE, parses |-> FALSE, numeric |-> FALSE],
          [present |-> TRUE, parses |-> TRUE, numeric |-> FALSE],
          [present |-> TRUE, parses |-> TRUE, numeric |-> TRUE]}

\* What selected_agent.run(topic) may do: raise, return a falsy value, return an
\* object without a content attribute, return an object whose content is None,
\* return an object with text.
Results == {[kind |-> "raise", content |-> NoneVal, msg |-> "api down"],
            [kind |-> "falsy", content |-> NoneVal, msg |-> ""],
            [kind |-> "noattr", content |-> NoneVal, msg |-> ""],
            [kind |-> "obj", content |-> NoneVal, msg |-> ""],
            [kind |-> "obj", content |-> "r1", msg |-> ""],
            [kind |-> "obj", content |-> "r2", msg |-> ""]}

\* The script's variable result while nothing is assigned to it.
Unset == [kind |-> "unset", content |-> NoneVal, msg |-> ""]

\* What the environment decides during a run: whether tmp_uploaded.csv can be
\* written, and the wall clock.
Environments == [write_ok : BOOLEAN, now : {"09:00:00", "09:00:01"}]

NoExc == "<no exception>"

\* ------------------------------------------------------------ pure helpers

RECURSIVE lstrip(_)
lstrip(s) == IF s # <<>> /\ Head(s) = SPACE THEN lstrip(Tail(s)) ELSE s

RECURSIVE rstrip(_)
rstrip(s) ==
    IF s # <<>> /\ s[Len(s)] = SPACE THEN rstrip(SubSeq(s, 1, Len(s) - 1)) ELSE s

\* str.strip()
strip(s) == rstrip(lstrip(s))

\* reversed(list)
reversed(s) == [i \in 1..Len(s) |-> s[Len(s) + 1 - i]]

Element(kind, text) == [kind |-> kind, text |-> text]

Call(op, target, arg) == [op |-> op, target |-> target, arg |-> arg]

\* ------------------------------------------------------ environment loading

\* os.environ["GROQ_API_KEY"] = os.getenv("GROQ_API_KEY"): assigning None raises
\* TypeError, which ends the script run.
LoadEnvRaises_DefaultValue(key) == FALSE

LoadEnvRaises(key) == ~key

\* ------------------------------------------------------------ CSV analysis

SUMMARY_TEXT == "Data Analysis Summary"

ERROR_TEXT == "Error analyzing dataset"

\* CSVAnalysisTool.run on the file stored at the path: the pair of a text and a
\* table; the table is NoFile (None) when read_csv or describe().to_markdown()
\* raised.
CSVAnalysisTool_run_LeaksTable(file, summary_ok) ==
    IF file.parses /\ summary_ok
    THEN [text |-> SUMMARY_TEXT, df |-> file]
    ELSE [text |-> ERROR_TEXT, df |-> file]

CSVAnalysisTool_run(file, summary_ok) ==
    IF file.parses /\ summary_ok
    THEN [text |-> SUMMARY_TEXT, df |-> file]
    ELSE [text |-> ERROR_TEXT, df |-> NoFile]

\* ------------------------------------------------------- agent definitions

\* The four Agent(...) and the Team(...) statements at module level.
ConstructRegistry == [i \in 1..Len(Registry) |-> Call("construct", Registry[i], <<>>)]

\* ---------------------------------------------------------- upload section

\* pd.read_csv(uploaded_file).head() of the preview, outside any try.
PreviewRaises(choice, file) == choice = DATA /\ file.present /\ ~file.parses

\* ----------------------------------------------------------------- history

\* if "history" not in st.session_state: st.session_state.history = []
HistoryInit_Always(ss) == [k \in {"history"} |-> <<>>]

HistoryInit(ss) ==
    IF "history" \in DOMAIN ss THEN ss ELSE [k \in {"history"} |-> <<>>]

\* The session's history list; empty while the key does not exist.
History == IF "history" \in DOMAIN session_state THEN session_state["history"] ELSE <<>>

\* ------------------------------------------------------ Run Analysis button

\* Path("tmp_uploaded.csv")
TMP_PATH == "tmp_uploaded.csv"

\* topic.strip() or (agent_choice == "Data Analyst" and uploaded_file)
InputGuard_NoStrip(top, choice, file) ==
    top # <<>> \/ (choice = DATA /\ file.present)

InputGuard(top, choice, file) ==
    strip(top) # <<>> \/ (choice = DATA /\ file.present)

\* agent_choice == "Data Analyst" and uploaded_file
TakesCsvPath(choice, file) == choice = DATA /\ file.present

\* The dictionary from the selected label to the agent or team object.
SelectedAgent_WrongObject(choice) ==
    CASE choice = NEWS -> "news_agent"
      [] choice = DATA -> "data_agent"
      [] choice = POLICY -> "news_agent"
      [] choice = INNOVATION -> "innovation_agent"
      [] choice = TASKFORCE -> "taskforce_team"

SelectedAgent(choice) ==
    CASE choice = NEWS -> "news_agent"
      [] choice = DATA -> "data_agent"
      [] choice = POLICY -> "policy_agent"
      [] choice = INNOVATION -> "innovation_agent"
      [] choice = TASKFORCE -> "taskforce_team"

\* bool(result): the returned value is truthy.
Truthy(res) == res.kind # "falsy"

\* hasattr(result, "content"); a content of None is an attribute too.
HasAttrContent(res) == res.kind = "obj"

\* st.warning("No content returned from the agent.")
NoContentWarning == Element("warning", "No content returned from the agent.")

\* st.warning("Please enter a topic or upload a dataset.")
EmptyInputWarning == Element("warning", "Please enter a topic or upload a dataset.")

\* What the body of the try statement does up to its end or to the statement
\* that raises: exc is the exception's message, NoExc when none was raised.
Outcome(exc, br, res, table, cs, sh, hist, disk) ==
    [exc |-> exc, branch |-> br, result |-> res, df |-> table, calls |-> cs,
     shown |-> sh, history |-> hist, disk |-> disk]

\* The CSV branch of the try statement.
CsvBranch(file, hist, disk, summary_ok, env) ==
    LET write == Call("write", TMP_PATH, <<>>)
        tool == Call("tool.run", "data_agent.tools[0]", <<TMP_PATH>>)
        written == file
        out == CSVAnalysisTool_run(written, summary_ok)
        res == [kind |-> "csv_text", content |-> out.text, msg |-> ""]
        report == <<Element("card_open", ""),
                    Element("markdown", "Data Analyst Report"),
                    Element("markdown", out.text)>>
    IN  IF ~env.write_ok
        THEN Outcome("cannot write file", "csv", Unset, NoFile, <<write>>, <<>>,
                     hist, disk)
        ELSE IF ~out.df.present
        THEN Outcome(NoExc, "csv_error_text", res, out.df, <<write, tool>>,
                     Append(report, Element("card_close", "")), hist, written)
        ELSE IF ~out.df.numeric
        THEN Outcome("no numeric data to plot", "csv", res, out.df, <<write, tool>>,
                     Append(report, Element("markdown", "Trend Chart")), hist,
                     written)
        ELSE Outcome(NoExc, "csv_report", res, out.df, <<write, tool>>,
                     report \o <<Element("markdown", "Trend Chart"),
                                 Element("pyplot", "chart"),
                                 Element("card_close", "")>>,
                     hist, written)

\* The agent branch of the try statement.
AgentBranch(choice, top, hist, disk, res, env) ==
    LET run == Call("run", SelectedAgent(choice), top)
        proposal == IF choice = TASKFORCE
                    THEN <<Element("success", "Full Sustainability Proposal Generated"),
                           Element("markdown", "Sustainability Proposal")>>
                    ELSE <<>>
        entry == [time |-> env.now, agent |-> choice, topic |-> top,
                  result |-> res.content]
    IN  IF res.kind = "raise"
        THEN Outcome(res.msg, "agent", Unset, NoFile, <<run>>, <<>>, hist, disk)
        ELSE IF Truthy(res) /\ HasAttrContent(res)
        THEN Outcome(NoExc, "agent_result", res, NoFile, <<run>>,
                     <<Element("card_open", ""),
                       Element("header", choice \o " Results")>>
                     \o proposal
                     \o <<Element("markdown", res.content),
                          Element("card_close", "")>>,
                     Append(hist, entry), disk)
        ELSE Outcome(NoExc, "no_content", res, NoFile, <<run>>, <<NoContentWarning>>,
                     hist, disk)

TryBody(choice, top, file, hist, disk, summary_ok, res, env) ==
    IF TakesCsvPath(choice, file)
    THEN CsvBranch(file, hist, disk, summary_ok, env)
    ELSE AgentBranch(choice, top, hist, disk, res, env)

\* except Exception as e: st.error(f"Error: {e}").  What the body rendered and
\* changed before the exception stays.
ExceptException_Pass(body) == [body EXCEPT !.branch = "raised"]

ExceptException(body) ==
    [body EXCEPT !.branch = "raised",
                 !.shown = Append(body.shown, Element("error", "Error: " \o body.exc))]

\* if st.button("Run Analysis"): ... else: st.warning(...)
RunButtonHandler(pressed, choice, top, file, hist, disk, summary_ok, res, env) ==
    IF ~pressed
    THEN Outcome(NoExc, "not_pressed", Unset, NoFile, <<>>, <<>>, hist, disk)
    ELSE IF InputGuard(top, choice, file)
    THEN LET body == TryBody(choice, top, file, hist, disk, summary_ok, res, env)
         IN  IF body.exc # NoExc THEN ExceptException(body) ELSE body
    ELSE Outcome(NoExc, "blocked", Unset, NoFile, <<>>, <<EmptyInputWarning>>,
                 hist, disk)

\* ------------------------------------------------- past results and export

\* for entry in reversed(st.session_state.history): with st.expander(...): ...
PastResults(hist) ==
    [i \in 1..Len(hist) |->
        [time |-> reversed(hist)[i].time, agent |-> reversed(hist)[i].agent,
         topic |-> reversed(hist)[i].topic, body |-> reversed(hist)[i].result]]

DownloadButton(label, data, file_name) ==
    [label |-> label, data |-> data, file_name |-> file_name]

\* The two download buttons of the last result.
ExportSection(hist) ==
    IF hist # <<>>
    THEN LET last_result == hist[Len(hist)].result
         IN  <<DownloadButton("Download as Markdown", last_result,
                              "sustainability_report.md"),
               DownloadButton("Download as Text", last_result,
                              "sustainability_report.txt")>>
    ELSE <<>>

\* ------------------------------------------------------------- script run

\* A script run that an uncaught exception ends before the Run Analysis button:
\* nothing below the point of the exception is rendered or assigned.
Halts(at) ==
    /\ status' = at
    /\ button' = FALSE
    /\ branch' = "not_reached"
    /\ result' = Unset
    /\ df' = NoFile
    /\ e' = NoExc
    /\ shown' = <<>>
    /\ expanders' = <<>>
    /\ downloads' = <<>>
    /\ UNCHANGED <<session_state, tmp_uploaded, successful_runs>>

\* One run of the script with the widget values choice, top and file; pressed
\* tells whether the run was triggered by the Run Analysis button.
ScriptRun(choice, top, file, pressed, res, env) ==
    LET ss == HistoryInit(session_state)
        h == RunButtonHandler(pressed, choice, top, file, ss["history"],
                              tmp_uploaded, tabulate_ok, res, env)
        rendered == h.branch \in {"csv_report", "agent_result"}
    IN  /\ script_runs < MaxRuns
        /\ script_runs' = script_runs + 1
        /\ agent_choice' = choice
        /\ topic' = top
        /\ uploaded_file' = file
        /\ UNCHANGED <<env_key, tabulate_ok>>
        /\ IF LoadEnvRaises(env_key)
           THEN /\ Halts("halt_env")
                /\ calls' = <<>>
                /\ UNCHANGED constructions
           ELSE IF PreviewRaises(choice, file)
           THEN /\ Halts("halt_preview")
                /\ calls' = ConstructRegistry
                /\ constructions' = constructions + Len(ConstructRegistry)
           ELSE /\ status' = "done"
                /\ button' = pressed
                /\ branch' = h.branch
                /\ result' = h.result
                /\ df' = h.df
                /\ e' = h.exc
                /\ calls' = ConstructRegistry \o h.calls
                /\ constructions' = constructions + Len(ConstructRegistry)
                /\ shown' = h.shown
                /\ session_state' = [ss EXCEPT !["history"] = h.history]
                /\ tmp_uploaded' = h.disk
                /\ expanders' = PastResults(h.history)
                /\ downloads' = ExportSection(h.history)
                /\ successful_runs' = IF rendered
                                      THEN Append(successful_runs, choice)
                                      ELSE successful_runs

\* Inputs of a run that does not reach the handler's try statement.
NoResult == [kind |-> "falsy", content |-> NoneVal, msg |-> ""]

NoEnvironment == [write_ok |-> TRUE, now |-> "09:00:00"]

\* ----------------------------------------------------------------- actions

\* The widgets above the upload section were rendered by the last run.
InputsRendered == status \in {"halt_preview", "done"}

\* The file uploader was rendered by the last run.
UploaderRendered == InputsRendered /\ agent_choice = DATA

\* The Run Analysis button was rendered by the last run.
ButtonRendered == status = "done"

\* The first load of the page, or a rerun without any widget change.
Rerun == ScriptRun(agent_choice, topic, uploaded_file, FALSE, NoResult, NoEnvironment)

\* The user picks another option of the selectbox; the uploader exists only
\* under Data Analyst and starts empty.
SelectAgent ==
    \E c \in ChoiceSet :
        /\ InputsRendered
        /\ c # agent_choice
        /\ ScriptRun(c, topic, NoFile, FALSE, NoResult, NoEnvironment)

\* The user changes the text of the text area.
EditTopic ==
    \E t \in Topics :
        /\ InputsRendered
        /\ t # topic
        /\ ScriptRun(agent_choice, t, uploaded_file, FALSE, NoResult, NoEnvironment)

\* The user uploads a file.
UploadFile ==
    \E f \in Files :
        /\ UploaderRendered
        /\ f # uploaded_file
        /\ ScriptRun(agent_choice, topic, f, FALSE, NoResult, NoEnvironment)

\* The user removes the uploaded file.
RemoveFile ==
    /\ UploaderRendered
    /\ uploaded_file.present
    /\ ScriptRun(agent_choice, topic, NoFile, FALSE, NoResult, NoEnvironment)

\* The user presses Run Analysis.
PressRun ==
    \E res \in Results, env \in Environments :
        /\ ButtonRendered
        /\ ScriptRun(agent_choice, topic, uploaded_file, TRUE, res, env)

Init ==
    /\ env_key \in BOOLEAN
    /\ tabulate_ok \in BOOLEAN
    /\ agent_choice = Choices[1]
    /\ topic = <<>>
    /\ uploaded_file = NoFile
    /\ session_state = [k \in {} |-> <<>>]
    /\ tmp_uploaded = NoFile
    /\ status = "not_run"
    /\ button = FALSE
    /\ branch = "not_reached"
    /\ result = Unset
    /\ df = NoFile
    /\ e = NoExc
    /\ calls = <<>>
    /\ shown = <<>>
    /\ expanders = <<>>
    /\ downloads = <<>>
    /\ constructions = 0
    /\ successful_runs = <<>>
    /\ script_runs = 0

Next == Rerun \/ SelectAgent \/ EditTopic \/ UploadFile \/ RemoveFile \/ PressRun

Spec == Init /\ [][Next]_vars

\* ------------------------------------------------------------ observations

\* A step that is a script run (every action is one).
ScriptRan == script_runs' = script_runs + 1

\* A step that is a script run triggered by the Run Analysis button.
Triggered == ScriptRan /\ button'

\* The calls the Run Analysis handler made in the last script run.
HandlerCalls == SubSeq(calls, Len(Registry) + 1, Len(calls))

IsPrefix(s, t) == Len(s) <= Len(t) /\ SubSeq(t, 1, Len(s)) = s

Shows(el) == \E i \in 1..Len(shown) : shown[i] = el

ShowsKind(kind) == \E i \in 1..Len(shown) : shown[i].kind = kind

\* The agent's run returned a value that lacks textual content.
LacksContent(res) ==
    \/ res.kind \in {"falsy", "noattr"}
    \/ res.kind = "obj" /\ res.content = NoneVal

\* ------------------------------------------------------------------ claims

\* C1: after K successful runs (triggers that completed and rendered a result,
\* through an agent or through the CSV summary path) the history holds exactly
\* K entries, in the order of those runs.
C1_HistoryHoldsEverySuccessfulRun ==
    [i \in 1..Len(History) |-> History[i].agent] = successful_runs

\* C2: whenever the agent's run returns without raising a result that lacks
\* textual content (falsy, no content attribute, or content None), the "no
\* content" warning is shown and the trigger leaves the history as it was.
C2_NoContentWarnsAndKeepsHistory ==
    [][(Triggered /\ LacksContent(result'))
          => (History' = History /\ shown' = <<NoContentWarning>>)]_vars

\* C3: whenever an exception is raised during a triggered run, its message is
\* shown as an error, the trigger leaves the history as it was, and the script
\* goes on to render the past results and the export section.
C3_ExceptionShownHistoryKept ==
    [][(Triggered /\ e' # NoExc)
          => /\ shown' # <<>>
             /\ shown'[Len(shown')] = Element("error", "Error: " \o e')
             /\ History' = History
             /\ status' = "done"
             /\ expanders' = PastResults(History)
             /\ downloads' = ExportSection(History)]_vars

\* C3 witness: a trigger raised while the history held an entry, and the page
\* still offers the downloads of that entry.
C3_Witness ==
    /\ button
    /\ e # NoExc
    /\ History # <<>>
    /\ Len(downloads) = 2
    /\ ShowsKind("error")

\* C4 as stated: for every choice and every upload state, pressing Run while
\* the topic is empty or whitespace-only makes no agent or tool call, shows the
\* empty-input warning and leaves the runner idle and the history unchanged.
C4_BlankTopicAlwaysBlocked ==
    [][(Triggered /\ strip(topic') = <<>>)
          => /\ HandlerCalls' = <<>>
             /\ shown' = <<EmptyInputWarning>>
             /\ branch' = "blocked"
             /\ History' = History]_vars

\* C4 amended: the same, unless Data Analyst is selected with a file uploaded.
C4_BlankTopicBlockedWithoutUpload ==
    [][(Triggered /\ strip(topic') = <<>>
          /\ ~(agent_choice' = DATA /\ uploaded_file'.present))
          => /\ HandlerCalls' = <<>>
             /\ shown' = <<EmptyInputWarning>>
             /\ branch' = "blocked"
             /\ History' = History]_vars

\* C4 witness: Run was pressed on a whitespace-only topic and was blocked.
C4_Witness ==
    /\ button
    /\ topic # <<>>
    /\ strip(topic) = <<>>
    /\ branch = "blocked"
    /\ HandlerCalls = <<>>

\* C5: when the credential is absent, the script halts before any agent or
\* team is constructed: no constructor call is ever made by the process.
C5_NoConstructionWithoutCredential ==
    ~env_key =>
        /\ constructions = 0
        /\ \A i \in 1..Len(calls) : calls[i].op # "construct"
        /\ status \in {"not_run", "halt_env"}

\* C5 witness: a script run halted at the environment loading.
C5_Witness == ~env_key /\ status = "halt_env" /\ script_runs > 0

\* C6: the registry (four agents and the team) is constructed exactly once per
\* process; no later script run constructs an agent or team again.
C6_RegistryConstructedOnce == constructions <= Len(Registry)

\* C7: in every state with a non-empty history both download buttons offer the
\* result of the last history entry, differing only in file name; with an
\* empty history no download is offered.
C7_DownloadsOfferLastResult ==
    IF History = <<>>
    THEN downloads = <<>>
    ELSE /\ Len(downloads) = 2
         /\ downloads[1].data = History[Len(History)].result
         /\ downloads[2].data = History[Len(History)].result
         /\ downloads[1].file_name # downloads[2].file_name

\* C8: CSVAnalysisTool.run never raises.  When loading or summarising fails it
\* returns the error text with a null table, the handler renders that text and
\* skips the chart; the table is non-null only on success.
C8_ToolReturnsErrorTextAndNullTable ==
    (\E i \in 1..Len(calls) : calls[i].op = "tool.run") =>
        /\ result.kind = "csv_text"
        /\ df.present <=> (tmp_uploaded.parses /\ tabulate_ok)
        /\ df.present => (df = tmp_uploaded /\ result.content = SUMMARY_TEXT)
        /\ ~df.present =>
              /\ result.content = ERROR_TEXT
              /\ Shows(Element("markdown", ERROR_TEXT))
              /\ ~ShowsKind("pyplot")
              /\ ~Shows(Element("markdown", "Trend Chart"))
              /\ e = NoExc

\* C8 witness: the tool failed on the uploaded file and its error text is shown.
C8_Witness ==
    /\ branch = "csv_error_text"
    /\ ~df.present
    /\ Shows(Element("markdown", ERROR_TEXT))

\* C9: the history is append-only: every step keeps the earlier history as a
\* prefix and adds at most one entry at the end.
C9_HistoryAppendOnly ==
    [][IsPrefix(History, History') /\ Len(History') <= Len(History) + 1]_vars

\* C9 witness: two entries were appended, one after the other.
C9_Witness == Len(History) >= 2 /\ History[1] # History[2]

\* The agent or team each label of the selectbox stands for.
LabelledAgent ==
    [c \in ChoiceSet |->
        CASE c = NEWS -> "news_agent"
          [] c = DATA -> "data_agent"
          [] c = POLICY -> "policy_agent"
          [] c = INNOVATION -> "innovation_agent"
          [] c = TASKFORCE -> "taskforce_team"]

\* C10: a file is uploaded only while Data Analyst is selected.  A trigger with
\* Data Analyst and a file takes the CSV path whatever the topic is: the file
\* is written to the temporary path, then the tool is called, and no agent or
\* team is run.  Any other trigger with a topic that is non-empty once stripped
\* makes exactly one run call, on the agent the label stands for.
C10_DispatchByChoiceAndUpload ==
    /\ uploaded_file.present => agent_choice = DATA
    /\ (button /\ agent_choice = DATA /\ uploaded_file.present) =>
          /\ HandlerCalls # <<>>
          /\ HandlerCalls[1] = Call("write", TMP_PATH, <<>>)
          /\ Len(HandlerCalls) <= 2
          /\ Len(HandlerCalls) = 2 =>
                /\ HandlerCalls[2] = Call("tool.run", "data_agent.tools[0]", <<TMP_PATH>>)
                /\ tmp_uploaded = uploaded_file
          /\ \A i \in 1..Len(HandlerCalls) : HandlerCalls[i].op # "run"
    /\ (button /\ ~(agent_choice = DATA /\ uploaded_file.present)
          /\ strip(topic) # <<>>) =>
          HandlerCalls = <<Call("run", LabelledAgent[agent_choice], topic)>>

\* C10 witness: the CSV path was taken although a topic was entered.
C10_Witness ==
    /\ button
    /\ agent_choice = DATA
    /\ uploaded_file.present
    /\ strip(topic) # <<>>
    /\ Len(HandlerCalls) = 2

====
